---- MODULE Spec2Model ----
(***************************************************************************)
(* A model of Source/Parser/svg_to_juce.py: the SVG-to-JUCE converter.     *)
(*                                                                         *)
(* One behaviour is a sequence of runs of the command-line tool on a fixed *)
(* drawing.  The files (drawing, mapping file, the three output files)     *)
(* persist between runs; every run builds a fresh SVGToJUCEConverter.      *)
(* Python strings are TLA+ strings, dicts are functions whose domain is    *)
(* the dict's key set, lists are sequences, and a text is the sequence of  *)
(* its lines.  Coordinates are whole millimetres, on which the float       *)
(* arithmetic of the source is exact.                                      *)
(***************************************************************************)
EXTENDS Integers, Sequences, FiniteSets, TLC

VARIABLES
    svgExists,    \* whether SR.svg exists
    svg,          \* the drawing in SR.svg
    mappingFile,  \* component_mapping.json: <<>> or <<its text>>
    outFiles,     \* the three files of generated/: each <<>> or <<its lines>>
    mode,         \* the mode of the last run ("none" before the first)
    mapper,       \* converter.mapper after the last run
    components,   \* converter.parser.components after the last run
    stdout,       \* what the last run printed
    exitCode,     \* <<>> before the first run, then <<the exit status of the last run>>
    converter,    \* <<>> or <<the CoordinateConverter of the last converter built>>
    conversion    \* <<>> or <<the last call of the converter made by itself>>

vars == <<svgExists, svg, mappingFile, outFiles, mode, mapper, components,
          stdout, exitCode, converter, conversion>>

(***************************************************************************)
(* Python str operations                                                   *)
(***************************************************************************)

\* str.startswith(p)
StartsWith(s, p) == Len(s) >= Len(p) /\ SubSeq(s, 1, Len(p)) = p

\* str.endswith(p)
EndsWith(s, p) == Len(s) >= Len(p) /\ SubSeq(s, Len(s) - Len(p) + 1, Len(s)) = p

\* sub in s
Contains(s, sub) ==
    \E i \in 1..(Len(s) - Len(sub) + 1) : SubSeq(s, i, i + Len(sub) - 1) = sub

\* s.replace(old, new), scanning from the left, old non-empty
RECURSIVE Replace(_, _, _)
Replace(s, old, new) ==
    IF Len(s) < Len(old) THEN s
    ELSE IF SubSeq(s, 1, Len(old)) = old
         THEN new \o Replace(SubSeq(s, Len(old) + 1, Len(s)), old, new)
         ELSE SubSeq(s, 1, 1) \o Replace(SubSeq(s, 2, Len(s)), old, new)

\* s.split(sep) for a one-character sep: the list of the parts
RECURSIVE SplitFrom(_, _, _)
SplitFrom(s, sep, cur) ==
    IF Len(s) = 0 THEN <<cur>>
    ELSE IF SubSeq(s, 1, 1) = sep
         THEN <<cur>> \o SplitFrom(SubSeq(s, 2, Len(s)), sep, "")
         ELSE SplitFrom(SubSeq(s, 2, Len(s)), sep, cur \o SubSeq(s, 1, 1))

Split(s, sep) == SplitFrom(s, sep, "")

UpperOf ==
    [a |-> "A", b |-> "B", c |-> "C", d |-> "D", e |-> "E", f |-> "F", g |-> "G",
     h |-> "H", i |-> "I", j |-> "J", k |-> "K", l |-> "L", m |-> "M", n |-> "N",
     o |-> "O", p |-> "P", q |-> "Q", r |-> "R", s |-> "S", t |-> "T", u |-> "U",
     v |-> "V", w |-> "W", x |-> "X", y |-> "Y", z |-> "Z"]

UpperChar(c) == IF c \in DOMAIN UpperOf THEN UpperOf[c] ELSE c

LowerChar(c) ==
    IF \E l \in DOMAIN UpperOf : UpperOf[l] = c
    THEN CHOOSE l \in DOMAIN UpperOf : UpperOf[l] = c
    ELSE c

\* s.upper()
RECURSIVE Upper(_)
Upper(s) ==
    IF Len(s) = 0 THEN ""
    ELSE UpperChar(SubSeq(s, 1, 1)) \o Upper(SubSeq(s, 2, Len(s)))

\* s.lower()
RECURSIVE Lower(_)
Lower(s) ==
    IF Len(s) = 0 THEN ""
    ELSE LowerChar(SubSeq(s, 1, 1)) \o Lower(SubSeq(s, 2, Len(s)))

\* s.capitalize(): first character upper case, the rest lower case
Capitalize(s) ==
    IF Len(s) = 0 THEN ""
    ELSE UpperChar(SubSeq(s, 1, 1)) \o Lower(SubSeq(s, 2, Len(s)))

\* ''.join(parts)
RECURSIVE Concat(_)
Concat(parts) ==
    IF Len(parts) = 0 THEN "" ELSE Head(parts) \o Concat(Tail(parts))

\* dict.get(key, default)
Get(d, key, default) == IF key \in DOMAIN d THEN d[key] ELSE default

\* The empty dict {}
EmptyDict == [k \in {} |-> 0]

\* The keys of a dict as a list, in one fixed order
RECURSIVE KeyList(_)
KeyList(S) ==
    IF S = {} THEN <<>>
    ELSE LET k == CHOOSE k \in S : TRUE IN <<k>> \o KeyList(S \ {k})

(***************************************************************************)
(* SVGParser                                                               *)
(*                                                                         *)
(* The drawing is [elems, groups]: elems are the shape elements in         *)
(* document order, each [tag, id, x, y, width, height, r, group] with id   *)
(* "" when the element has no id attribute and group the index of the <g>  *)
(* element holding it (0: directly under the root); groups are the <g>     *)
(* elements in document order, each [id, label] with label the             *)
(* inkscape:label ("" when absent).                                        *)
(***************************************************************************)

\* SVGComponent.__init__
SVGComponent(element_id, element_type, x, y, width, height, radius) ==
    [id |-> element_id, type |-> element_type, x |-> x, y |-> y,
     width |-> width, height |-> height, radius |-> radius,
     label |-> "", section |-> ""]

DecorativePrefixes == {"grain_particle", "midi_dot", "kbd_key"}

\* SVGParser._parse_circle: the component, or nothing (None) as <<>>
ParseCircle(element) ==
    IF element.id = "" \/ \E p \in DecorativePrefixes : StartsWith(element.id, p)
    THEN <<>>
    ELSE <<SVGComponent(element.id, "circle", element.x, element.y, 0, 0, element.r)>>

skip_ids == {"panel_background", "header_bg", "waveform_path"}

\* SVGParser._parse_rect: the component, or nothing (None) as <<>>
ParseRect(element) ==
    IF element.id = "" \/ EndsWith(element.id, "_border") \/ element.id \in skip_ids
    THEN <<>>
    ELSE <<SVGComponent(element.id, "rect", element.x, element.y,
                        element.width, element.height, 0)>>

\* The loop of parse over root.iter(tag): every element of the tag, in
\* document order, parsed and appended when it yields a component
RECURSIVE ParseAll(_, _)
ParseAll(elems, tag) ==
    IF Len(elems) = 0 THEN <<>>
    ELSE LET el == Head(elems) IN
         (IF el.tag # tag THEN <<>>
          ELSE IF tag = "circle" THEN ParseCircle(el) ELSE ParseRect(el))
         \o ParseAll(Tail(elems), tag)

\* group.iter(): the ids carried by the group element and by what it holds
GroupIds(drawing, g) ==
    {drawing.groups[g].id}
    \cup {drawing.elems[i].id : i \in {k \in DOMAIN drawing.elems : drawing.elems[k].group = g}}

\* SVGParser._assign_sections for one component: the groups are visited in
\* document order and every labelled group that holds an element with the
\* component's id overwrites the section
RECURSIVE SectionAfter(_, _, _, _)
SectionAfter(drawing, comp_id, g, section) ==
    IF g > Len(drawing.groups) THEN section
    ELSE IF drawing.groups[g].label # "" /\ comp_id \in GroupIds(drawing, g)
         THEN SectionAfter(drawing, comp_id, g + 1, drawing.groups[g].label)
         ELSE SectionAfter(drawing, comp_id, g + 1, section)

AssignSections(drawing, comps) ==
    [i \in DOMAIN comps |->
        [comps[i] EXCEPT !.section = SectionAfter(drawing, comps[i].id, 1, comps[i].section)]]

\* SVGParser.parse: circles first, then rectangles, then the sections
Parse(drawing) ==
    AssignSections(drawing, ParseAll(drawing.elems, "circle") \o ParseAll(drawing.elems, "rect"))

(***************************************************************************)
(* ComponentMapper                                                         *)
(*                                                                         *)
(* A file is <<>> when it does not exist and <<text>> when it does.  The   *)
(* text of the mapping file is a JSON object, modelled as the sequence of  *)
(* its members <<key, value>> in the order written; the value of "config"  *)
(* is an object of scalars, the value of "components" an object whose      *)
(* values are objects of scalars.                                          *)
(***************************************************************************)

\* ComponentMapper.__init__
NewMapper == [mapping |-> EmptyDict, config |-> EmptyDict]

\* json.dump of a dict of scalars: one member per key
DumpObject(d) ==
    LET keys == KeyList(DOMAIN d) IN [i \in DOMAIN keys |-> <<keys[i], d[keys[i]]>>]

\* json.dump of a dict of dicts of scalars
DumpObjects(d) ==
    LET keys == KeyList(DOMAIN d) IN [i \in DOMAIN keys |-> <<keys[i], DumpObject(d[keys[i]])>>]

\* json.load of an object of scalars: a dict, the last member of a key winning
LoadObject(members) ==
    [k \in {members[i][1] : i \in DOMAIN members} |->
        LET last == CHOOSE i \in DOMAIN members :
                        /\ members[i][1] = k
                        /\ \A j \in DOMAIN members : members[j][1] = k => j <= i
        IN members[last][2]]

\* json.load of an object of objects of scalars
LoadObjects(members) ==
    LET outer == LoadObject(members) IN [k \in DOMAIN outer |-> LoadObject(outer[k])]

\* json.load of the mapping file's text: the dict `data`
JsonLoad(text) ==
    LET outer == LoadObject(text) IN
    [k \in DOMAIN outer |-> IF k = "components" THEN LoadObjects(outer[k]) ELSE LoadObject(outer[k])]

\* json.dump of `data` as ComponentMapper.save builds it
JsonDump(data) ==
    <<<<"config", DumpObject(data.config)>>, <<"components", DumpObjects(data.components)>>>>

\* ComponentMapper.load: the mapper after load(), given the file
Load(m, file) ==
    IF file = <<>> THEN m
    ELSE LET data == JsonLoad(file[1]) IN
         [m EXCEPT !.config = Get(data, "config", EmptyDict),
                   !.mapping = Get(data, "components", EmptyDict)]

\* A save that writes the entries and an empty configuration
SaveComponentsOnly(m) == <<JsonDump([config |-> EmptyDict, components |-> m.mapping])>>

\* ComponentMapper.save: the file after save()
Save(m) == <<JsonDump([config |-> m.config, components |-> m.mapping])>>

\* self.mapper.get_component_info(svg_id) tested with `not info`: true when
\* the id has no entry (None) and when its entry is the empty dict
NotInfo(m, svg_id) == svg_id \notin DOMAIN m.mapping \/ DOMAIN m.mapping[svg_id] = {}

\* info.get(key, default) on self.mapper.get_component_info(svg_id)
InfoGet(m, svg_id, key, default) == Get(m.mapping[svg_id], key, default)

\* ComponentMapper.detect_component_type
DetectComponentType(svg_id) ==
    IF StartsWith(svg_id, "knob_") THEN "OccultKnob"
    ELSE IF EndsWith(svg_id, "_btn") THEN "TextButton"
    ELSE IF StartsWith(svg_id, "mod_") THEN "ModButton"
    ELSE IF (Contains(svg_id, "visualizer") \/ Contains(svg_id, "display"))
            /\ Contains(svg_id, "waveform") THEN "WaveformDisplay"
    ELSE IF (Contains(svg_id, "visualizer") \/ Contains(svg_id, "display"))
            /\ Contains(svg_id, "grain") THEN "GrainVisualizer"
    ELSE IF (Contains(svg_id, "visualizer") \/ Contains(svg_id, "display"))
            /\ Contains(svg_id, "lfo") THEN "LFOVisualizer"
    ELSE IF Contains(svg_id, "waveform_box") \/ Contains(svg_id, "dropdown") THEN "ComboBox"
    ELSE IF Contains(svg_id, "indicator") THEN "Indicator"
    ELSE "Unknown"

(***************************************************************************)
(* CoordinateConverter                                                     *)
(***************************************************************************)

svg_width_mm == 225
svg_height_mm == 190
juce_width_px == 850
juce_height_px == 720

\* CoordinateConverter.__init__; scale_x and scale_y are the ratios
\* juce_width_px / svg_width_mm and juce_height_px / svg_height_mm, kept as
\* <<numerator, denominator>>
CoordinateConverter(w_mm, h_mm, w_px, h_px) ==
    [svg_width_mm |-> w_mm, svg_height_mm |-> h_mm,
     juce_width_px |-> w_px, juce_height_px |-> h_px,
     scale_x |-> <<w_px, w_mm>>, scale_y |-> <<h_px, h_mm>>]

\* A length in millimetres, a float in the code: the ratio num / den, den > 0
Length(num, den) == [num |-> num, den |-> den]

\* A whole number of millimetres
Mm(n) == Length(n, 1)

\* The quotient rounded down, not to the nearest integer
Truncated(num, den) == num \div den

\* int(round(num / den)) for den > 0: Python rounds halves to the even integer
Round(num, den) ==
    LET q == num \div den
        r == num % den
    IN IF 2 * r < den THEN q
       ELSE IF 2 * r > den THEN q + 1
       ELSE IF q % 2 = 0 THEN q ELSE q + 1

\* int(round(v_mm * scale)) for a length and a scale
Scaled(v_mm, scale) == Round(v_mm.num * scale[1], v_mm.den * scale[2])

\* CoordinateConverter.to_juce
ToJuce(conv, x_mm, y_mm) == <<Scaled(x_mm, conv.scale_x), Scaled(y_mm, conv.scale_y)>>

\* CoordinateConverter.size_to_juce
SizeToJuce(conv, width_mm, height_mm) ==
    <<Scaled(width_mm, conv.scale_x), Scaled(height_mm, conv.scale_y)>>

(***************************************************************************)
(* CodeGenerator                                                           *)
(***************************************************************************)

\* The characters of section labels in code-point order
Ascii == " 0123456789ABCDEFGHIJKLMNOPQRSTUVWXYZ_abcdefghijklmnopqrstuvwxyz"

CharRank(c) == CHOOSE i \in 1..Len(Ascii) : SubSeq(Ascii, i, i) = c

\* a < b for Python strings
RECURSIVE StrLess(_, _)
StrLess(a, b) ==
    IF Len(b) = 0 THEN FALSE
    ELSE IF Len(a) = 0 THEN TRUE
    ELSE IF SubSeq(a, 1, 1) = SubSeq(b, 1, 1)
         THEN StrLess(SubSeq(a, 2, Len(a)), SubSeq(b, 2, Len(b)))
         ELSE CharRank(SubSeq(a, 1, 1)) < CharRank(SubSeq(b, 1, 1))

\* sorted(keys)
RECURSIVE SortedList(_)
SortedList(S) ==
    IF S = {} THEN <<>>
    ELSE LET least == CHOOSE a \in S : \A b \in S \ {a} : StrLess(a, b)
         IN <<least>> \o SortedList(S \ {least})

\* comp.section or "Other"
SectionKey(comp) == IF comp.section = "" THEN "Other" ELSE comp.section

\* sorted(sections.items()): the section names in order
SortedSections(comps) == SortedList({SectionKey(comps[i]) : i \in DOMAIN comps})

\* sections[section]: the components of a section, in list order
RECURSIVE InSection(_, _)
InSection(comps, section) ==
    IF Len(comps) = 0 THEN <<>>
    ELSE (IF SectionKey(Head(comps)) = section THEN <<Head(comps)>> ELSE <<>>)
         \o InSection(Tail(comps), section)

NonControlSections == {"Panel", "Decorations", "Header"}

SkippedTypes == {"ModButton", "Indicator", "Unknown"}

EmittedTypes ==
    {"OccultKnob", "TextButton", "ComboBox", "WaveformDisplay", "GrainVisualizer",
     "LFOVisualizer"}

\* The value of info.get('type') when the entry has no type: None
PyNone == "<None>"

\* generate_header_snippet: the lines one component adds
HeaderLinesOf(m, comp) ==
    IF NotInfo(m, comp.id) THEN <<"// UNMAPPED: " \o comp.id>>
    ELSE LET comp_type == InfoGet(m, comp.id, "type", "Unknown")
             member_name == InfoGet(m, comp.id, "member", comp.id)
             label == InfoGet(m, comp.id, "label", "")
         IN IF comp_type \in SkippedTypes THEN <<>>
            ELSE IF comp_type = "OccultKnob"
                 THEN <<"OccultKnob " \o member_name \o "{\"" \o label \o "\"};">>
            ELSE IF comp_type = "TextButton"
                 THEN <<"juce::TextButton " \o member_name \o "{\"" \o label \o "\"};">>
            ELSE IF comp_type = "ComboBox"
                 THEN <<"juce::ComboBox " \o member_name \o ";">>
            ELSE IF comp_type \in {"WaveformDisplay", "GrainVisualizer", "LFOVisualizer"}
                 THEN <<comp_type \o " " \o member_name \o ";">>
            ELSE <<>>

RECURSIVE HeaderLinesOfAll(_, _)
HeaderLinesOfAll(m, comps) ==
    IF Len(comps) = 0 THEN <<>>
    ELSE HeaderLinesOf(m, Head(comps)) \o HeaderLinesOfAll(m, Tail(comps))

RECURSIVE HeaderSections(_, _, _)
HeaderSections(m, comps, sections) ==
    IF Len(sections) = 0 THEN <<>>
    ELSE (IF Head(sections) \in NonControlSections THEN <<>>
          ELSE <<"// " \o Head(sections)>>
               \o HeaderLinesOfAll(m, InSection(comps, Head(sections)))
               \o <<"">>)
         \o HeaderSections(m, comps, Tail(sections))

\* CodeGenerator.generate_header_snippet: the lines of the snippet
GenerateHeaderSnippet(m, comps) ==
    <<"// AUTO-GENERATED from SR.svg - Review before integrating",
      "// Member variable declarations",
      "">>
    \o HeaderSections(m, comps, SortedSections(comps))

\* generate_constructor_snippet, first loop: the setupKnob line of a component
SetupKnobLinesOf(m, comp) ==
    IF NotInfo(m, comp.id) \/ InfoGet(m, comp.id, "type", PyNone) # "OccultKnob" THEN <<>>
    ELSE LET member_name == InfoGet(m, comp.id, "member", "")
             param_id == InfoGet(m, comp.id, "paramId", "")
             label == InfoGet(m, comp.id, "label", "")
         IN IF param_id # ""
            THEN <<"setupKnob(" \o member_name \o ", " \o param_id \o ", \"" \o label \o "\");">>
            ELSE <<>>

\* The constructor lines of a shape, were the non-control sections skipped
\* here as they are in the header and layout snippets
VisibleLinesOfControls(m, comp) ==
    IF NotInfo(m, comp.id) \/ comp.section \in NonControlSections THEN <<>>
    ELSE LET comp_type == InfoGet(m, comp.id, "type", "")
         IN IF comp_type \in EmittedTypes
            THEN <<"addAndMakeVisible(" \o InfoGet(m, comp.id, "member", "") \o ");">>
            ELSE <<>>

\* generate_constructor_snippet, second loop: the addAndMakeVisible line
VisibleLinesOf(m, comp) ==
    IF NotInfo(m, comp.id) THEN <<>>
    ELSE LET member_name == InfoGet(m, comp.id, "member", "")
             comp_type == InfoGet(m, comp.id, "type", "")
         IN IF comp_type \in SkippedTypes THEN <<>>
            ELSE IF comp_type \in EmittedTypes
                 THEN <<"addAndMakeVisible(" \o member_name \o ");">>
                 ELSE <<>>

RECURSIVE SetupKnobLines(_, _)
SetupKnobLines(m, comps) ==
    IF Len(comps) = 0 THEN <<>>
    ELSE SetupKnobLinesOf(m, Head(comps)) \o SetupKnobLines(m, Tail(comps))

RECURSIVE VisibleLines(_, _)
VisibleLines(m, comps) ==
    IF Len(comps) = 0 THEN <<>>
    ELSE VisibleLinesOf(m, Head(comps)) \o VisibleLines(m, Tail(comps))

\* CodeGenerator.generate_constructor_snippet: the lines of the snippet
GenerateConstructorSnippet(m, comps) ==
    <<"// AUTO-GENERATED from SR.svg - Review before integrating",
      "// Constructor initialization",
      "",
      "// Setup knobs with parameter attachments">>
    \o SetupKnobLines(m, comps)
    \o <<"", "// Add components to visible">>
    \o VisibleLines(m, comps)

\* f"{v:.1f}" of a whole number of millimetres
Fmt1f(v) == ToString(v) \o ".0"

\* generate_resized_snippet: the setBounds call of one component
ResizedLinesOf(m, conv, comp) ==
    IF NotInfo(m, comp.id) THEN <<>>
    ELSE LET member_name == InfoGet(m, comp.id, "member", "")
             comp_type == InfoGet(m, comp.id, "type", "")
             pos == ToJuce(conv, Mm(comp.x), Mm(comp.y))
             size == SizeToJuce(conv, Mm(comp.width), Mm(comp.height))
         IN IF comp_type \in SkippedTypes THEN <<>>
            ELSE IF comp.type = "circle"
                 THEN <<member_name \o ".setBounds(",
                        "    static_cast<int>(" \o ToString(pos[1])
                            \o " * scaleX) - knobWidth/2,  // SVG: " \o Fmt1f(comp.x) \o "mm",
                        "    static_cast<int>(" \o ToString(pos[2])
                            \o " * scaleY) - knobHeight/2, // SVG: " \o Fmt1f(comp.y) \o "mm",
                        "    knobWidth,",
                        "    knobHeight",
                        ");">>
                 ELSE <<member_name \o ".setBounds(",
                        "    static_cast<int>(" \o ToString(pos[1])
                            \o " * scaleX),  // SVG: " \o Fmt1f(comp.x) \o "mm",
                        "    static_cast<int>(" \o ToString(pos[2])
                            \o " * scaleY),  // SVG: " \o Fmt1f(comp.y) \o "mm",
                        "    static_cast<int>(" \o ToString(size[1]) \o " * scaleX),",
                        "    static_cast<int>(" \o ToString(size[2]) \o " * scaleY)",
                        ");">>

RECURSIVE ResizedLinesOfAll(_, _, _)
ResizedLinesOfAll(m, conv, comps) ==
    IF Len(comps) = 0 THEN <<>>
    ELSE ResizedLinesOf(m, conv, Head(comps)) \o ResizedLinesOfAll(m, conv, Tail(comps))

RECURSIVE ResizedSections(_, _, _, _)
ResizedSections(m, conv, comps, sections) ==
    IF Len(sections) = 0 THEN <<>>
    ELSE (IF Head(sections) \in NonControlSections THEN <<>>
          ELSE <<"// " \o Head(sections)>>
               \o ResizedLinesOfAll(m, conv, InSection(comps, Head(sections)))
               \o <<"">>)
         \o ResizedSections(m, conv, comps, Tail(sections))

\* CodeGenerator.generate_resized_snippet: the lines of the snippet
GenerateResizedSnippet(m, conv, comps) ==
    <<"// AUTO-GENERATED from SR.svg - Review before integrating",
      "// resized() method layout",
      "",
      "const float scaleX = getWidth() / 850.0f;",
      "const float scaleY = getHeight() / 720.0f;",
      "const int knobWidth = static_cast<int>(85 * scaleX);",
      "const int knobHeight = static_cast<int>(100 * scaleY);",
      "">>
    \o ResizedSections(m, conv, comps, SortedSections(comps))

(***************************************************************************)
(* SVGToJUCEConverter: init_mapping                                        *)
(***************************************************************************)

\* SVGToJUCEConverter.__init__: self.converter = CoordinateConverter()
DefaultConverter ==
    CoordinateConverter(svg_width_mm, svg_height_mm, juce_width_px, juce_height_px)

\* ''.join(p.capitalize() for p in parts)
RECURSIVE CapitalizeAll(_)
CapitalizeAll(parts) ==
    IF Len(parts) = 0 THEN ""
    ELSE Capitalize(Head(parts)) \o CapitalizeAll(Tail(parts))

\* SVGToJUCEConverter._suggest_member_name
SuggestMemberName(svg_id, comp_type) ==
    LET stripped == Replace(Replace(svg_id, "knob_", ""), "mod_", "")
        parts == Split(stripped, "_")
        name == IF Len(parts) > 1 THEN Head(parts) \o CapitalizeAll(Tail(parts))
                ELSE stripped
    IN IF comp_type = "OccultKnob" THEN name \o "Knob"
       ELSE IF comp_type = "TextButton" THEN name \o "Button"
       ELSE IF comp_type = "ComboBox" THEN name \o "Box"
       ELSE name

param_map ==
    [knob_position |-> "ParamIDs::position", knob_size |-> "ParamIDs::grainSize",
     knob_density |-> "ParamIDs::density", knob_pitch |-> "ParamIDs::pitch",
     knob_spray |-> "ParamIDs::spray", knob_pan |-> "ParamIDs::panSpread",
     knob_gatk |-> "ParamIDs::grainAttack", knob_grel |-> "ParamIDs::grainRelease",
     knob_attack |-> "ParamIDs::voiceAttack", knob_decay |-> "ParamIDs::voiceDecay",
     knob_sustain |-> "ParamIDs::voiceSustain", knob_release |-> "ParamIDs::voiceRelease",
     knob_lfo_rate |-> "ParamIDs::lfoRate", knob_lfo_amount |-> "ParamIDs::lfoAmount",
     lfo_waveform_box |-> "ParamIDs::lfoWaveform", knob_delay |-> "ParamIDs::delayTime",
     knob_flutter |-> "ParamIDs::flutter", knob_hiss |-> "ParamIDs::tapeHiss",
     knob_damage |-> "ParamIDs::damage", knob_life |-> "ParamIDs::life",
     knob_reverb |-> "ParamIDs::reverb", knob_feedback |-> "ParamIDs::feedback",
     knob_mix |-> "ParamIDs::mix", knob_output |-> "ParamIDs::output",
     sample_gain_knob |-> "ParamIDs::sampleGain"]

\* SVGToJUCEConverter._suggest_param_id
SuggestParamId(svg_id) == Get(param_map, svg_id, "")

\* SVGToJUCEConverter._suggest_label
SuggestLabel(svg_id) ==
    LET label == Replace(Replace(Replace(svg_id, "knob_", ""), "mod_", ""), "_btn", "")
    IN IF label = "size" THEN "SIZE"
       ELSE IF label = "gatk" THEN "G.ATK"
       ELSE IF label = "grel" THEN "G.REL"
       ELSE IF label = "pan" THEN "PAN"
       ELSE IF label = "lfo_rate" THEN "RATE"
       ELSE IF label = "lfo_amount" THEN "AMOUNT"
       ELSE IF label = "delay" THEN "DELAY"
       ELSE Upper(Replace(label, "_", " "))

\* d1 | d2 for dicts: the keys of both, d2 winning
Merge(d1, d2) ==
    [k \in DOMAIN d1 \cup DOMAIN d2 |-> IF k \in DOMAIN d2 THEN d2[k] ELSE d1[k]]

\* init_mapping: the entry built for one component
SkeletonEntry(svg_id) ==
    LET comp_type == DetectComponentType(svg_id)
        param_id == SuggestParamId(svg_id)
        base == [type |-> comp_type,
                 member |-> SuggestMemberName(svg_id, comp_type),
                 label |-> SuggestLabel(svg_id)]
        with_param == IF param_id # "" THEN Merge(base, [paramId |-> param_id]) ELSE base
    IN IF comp_type = "OccultKnob" THEN Merge(with_param, [modulation |-> TRUE])
       ELSE with_param

\* The loop, were a shape of undetected type left out of the skeleton
RECURSIVE SkeletonOfDetected(_, _, _)
SkeletonOfDetected(comps, already, mapping) ==
    IF Len(comps) = 0 THEN mapping
    ELSE LET comp == Head(comps) IN
         IF comp.id \in DOMAIN already \/ DetectComponentType(comp.id) = "Unknown"
         THEN SkeletonOfDetected(Tail(comps), already, mapping)
         ELSE SkeletonOfDetected(Tail(comps), already,
                                 Merge(mapping, [k \in {comp.id} |-> SkeletonEntry(comp.id)]))

\* init_mapping: the loop building `mapping`; `already` is self.mapper.mapping,
\* whose ids are skipped
RECURSIVE Skeleton(_, _, _)
Skeleton(comps, already, mapping) ==
    IF Len(comps) = 0 THEN mapping
    ELSE LET comp == Head(comps) IN
         IF comp.id \in DOMAIN already
         THEN Skeleton(Tail(comps), already, mapping)
         ELSE Skeleton(Tail(comps), already,
                       Merge(mapping, [k \in {comp.id} |-> SkeletonEntry(comp.id)]))

\* init_mapping: the configuration saved with the skeleton
InitConfig ==
    [svg_width_mm |-> 225, svg_height_mm |-> 190, juce_width_px |-> 850,
     juce_height_px |-> 720]

\* SVGToJUCEConverter.init_mapping: the mapper it saves
InitMappingMapper(m, comps) ==
    [m EXCEPT !.config = InitConfig, !.mapping = Skeleton(comps, m.mapping, EmptyDict)]

(***************************************************************************)
(* SVGToJUCEConverter: validate                                            *)
(*                                                                         *)
(* stdout is the sequence of the things printed, each a record with its    *)
(* kind and the values it shows.                                           *)
(***************************************************************************)

\* The unmapped list, were an empty entry counted as no entry
RECURSIVE UnmappedByInfo(_, _)
UnmappedByInfo(m, comps) ==
    IF Len(comps) = 0 THEN <<>>
    ELSE (IF NotInfo(m, Head(comps).id) THEN <<Head(comps).id>> ELSE <<>>)
         \o UnmappedByInfo(m, Tail(comps))

\* validate: the list `unmapped`
RECURSIVE Unmapped(_, _)
Unmapped(m, comps) ==
    IF Len(comps) = 0 THEN <<>>
    ELSE (IF Head(comps).id \notin DOMAIN m.mapping THEN <<Head(comps).id>> ELSE <<>>)
         \o Unmapped(m, Tail(comps))

RECURSIVE UnknownTypeOf(_, _)
UnknownTypeOf(m, keys) ==
    IF Len(keys) = 0 THEN <<>>
    ELSE (IF Get(m.mapping[Head(keys)], "type", PyNone) = "Unknown" THEN <<Head(keys)>>
          ELSE <<>>)
         \o UnknownTypeOf(m, Tail(keys))

\* validate: the list `unknown_type`, over self.mapper.mapping.items()
UnknownType(m) == UnknownTypeOf(m, KeyList(DOMAIN m.mapping))

\* validate: the threshold of the overlap check, in millimetres
OverlapThreshold == 2

\* The overlap filter, were an entry without a type taken as Unknown
OverlapSkippedUntyped(m, comp) ==
    NotInfo(m, comp.id) \/ InfoGet(m, comp.id, "type", "Unknown") \in SkippedTypes

\* validate: a component the overlap check passes over
OverlapSkipped(m, comp) ==
    NotInfo(m, comp.id) \/ InfoGet(m, comp.id, "type", PyNone) \in SkippedTypes

Abs(v) == IF v < 0 THEN -v ELSE v

\* dx**2 + dy**2: the square of `distance`
DistanceSq(comp1, comp2) ==
    Abs(comp1.x - comp2.x) * Abs(comp1.x - comp2.x)
    + Abs(comp1.y - comp2.y) * Abs(comp1.y - comp2.y)

\* distance < 2, decided on the squares
TooClose(comp1, comp2) == DistanceSq(comp1, comp2) < OverlapThreshold * OverlapThreshold

\* validate: the inner loop over components[i+1:]; an entry of `overlaps` is
\* <<comp1.id, comp2.id, the square of the distance>>
RECURSIVE OverlapsOf(_, _, _)
OverlapsOf(m, comp1, rest) ==
    IF Len(rest) = 0 THEN <<>>
    ELSE (IF ~OverlapSkipped(m, Head(rest)) /\ TooClose(comp1, Head(rest))
          THEN <<<<comp1.id, Head(rest).id, DistanceSq(comp1, Head(rest))>>>>
          ELSE <<>>)
         \o OverlapsOf(m, comp1, Tail(rest))

\* validate: the list `overlaps`
RECURSIVE Overlaps(_, _)
Overlaps(m, comps) ==
    IF Len(comps) = 0 THEN <<>>
    ELSE (IF OverlapSkipped(m, Head(comps)) THEN <<>>
          ELSE OverlapsOf(m, Head(comps), Tail(comps)))
         \o Overlaps(m, Tail(comps))

svg_width == 225
svg_height == 190

\* validate: the list `out_of_bounds`
RECURSIVE OutOfBounds(_)
OutOfBounds(comps) ==
    IF Len(comps) = 0 THEN <<>>
    ELSE LET comp == Head(comps) IN
         (IF comp.x < 0 \/ comp.x > svg_width \/ comp.y < 0 \/ comp.y > svg_height
          THEN <<comp.id>> ELSE <<>>)
         \o OutOfBounds(Tail(comps))

\* validate: what it prints once the mapping is loaded and the drawing parsed
ValidateReport(m, comps) ==
    LET unmapped == Unmapped(m, comps)
        unknown_type == UnknownType(m)
        overlaps == Overlaps(m, comps)
        out_of_bounds == OutOfBounds(comps)
    IN <<[kind |-> "parsing"], [kind |-> "found", count |-> Len(comps)]>>
       \o (IF unmapped # <<>> THEN <<[kind |-> "warning_unmapped", ids |-> unmapped]>>
           ELSE <<>>)
       \o (IF unknown_type # <<>>
           THEN <<[kind |-> "warning_unknown_type", ids |-> unknown_type]>> ELSE <<>>)
       \o (IF overlaps # <<>> THEN <<[kind |-> "warning_overlaps", pairs |-> overlaps]>>
           ELSE <<>>)
       \o (IF out_of_bounds # <<>>
           THEN <<[kind |-> "warning_out_of_bounds", ids |-> out_of_bounds]>> ELSE <<>>)
       \o (IF unmapped = <<>> /\ unknown_type = <<>> /\ overlaps = <<>>
              /\ out_of_bounds = <<>>
           THEN <<[kind |-> "passed"]>>
           ELSE <<[kind |-> "complete",
                   count |-> Len(unmapped) + Len(unknown_type) + Len(overlaps)
                             + Len(out_of_bounds)]>>)

(***************************************************************************)
(* SVGToJUCEConverter: generate_code                                       *)
(***************************************************************************)

OutputNames == {"header_snippet.hpp", "constructor_snippet.cpp", "resized_snippet.cpp"}

\* The number of characters of each snippet that the preview shows
PreviewChars == 500

\* text[:n] of the text whose lines are `lines`, as its lines
RECURSIVE Truncate(_, _)
Truncate(lines, n) ==
    IF Len(Head(lines)) >= n THEN <<SubSeq(Head(lines), 1, n)>>
    ELSE IF Len(lines) = 1 THEN lines
    ELSE <<Head(lines)>> \o Truncate(Tail(lines), n - Len(Head(lines)) - 1)

\* generate_code: the three snippets, by output file
Snippets(m, conv, comps) ==
    [name \in OutputNames |->
        IF name = "header_snippet.hpp" THEN GenerateHeaderSnippet(m, comps)
        ELSE IF name = "constructor_snippet.cpp" THEN GenerateConstructorSnippet(m, comps)
        ELSE GenerateResizedSnippet(m, conv, comps)]

\* generate_code: the prints of the dry run
DryRunReport(snippets) ==
    <<[kind |-> "dry_run"],
      [kind |-> "preview", name |-> "header_snippet.hpp",
       text |-> Truncate(snippets["header_snippet.hpp"], PreviewChars)],
      [kind |-> "preview", name |-> "constructor_snippet.cpp",
       text |-> Truncate(snippets["constructor_snippet.cpp"], PreviewChars)],
      [kind |-> "preview", name |-> "resized_snippet.cpp",
       text |-> Truncate(snippets["resized_snippet.cpp"], PreviewChars)],
      [kind |-> "use_without_dry_run"]>>

\* generate_code: the prints of the writing run
WriteReport ==
    <<[kind |-> "generated", name |-> "header_snippet.hpp"],
      [kind |-> "generated", name |-> "constructor_snippet.cpp"],
      [kind |-> "generated", name |-> "resized_snippet.cpp"],
      [kind |-> "generation_complete"]>>

\* A write of the header snippet into each of the three files
WriteHeaderOnly(snippets) == [name \in OutputNames |-> <<snippets["header_snippet.hpp"]>>]

\* generate_code: the three open(..., 'w') ... f.write(snippet)
WriteOutputs(snippets) == [name \in OutputNames |-> <<snippets[name]>>]

(***************************************************************************)
(* The inputs: drawings, mapping files, output files present beforehand    *)
(***************************************************************************)

\* The largest number of shape elements of a drawing
MaxElems == 2

\* The largest coordinate of an element, in millimetres
MaxCoord == 3

\* The <g> elements of the drawings
Groups ==
    <<[id |-> "layer_panel", label |-> "Panel"],
      [id |-> "layer_grain", label |-> "Grain"]>>

Element(tag, id, x, y, group) ==
    [tag |-> tag, id |-> id, x |-> x, y |-> y, width |-> 20, height |-> 10, r |-> 4,
     group |-> group]

DrawingsOf(elements) ==
    {[elems |-> e, groups |-> Groups] :
        e \in UNION {[1..n -> elements] : n \in 0..MaxElems}}

\* Elements of either kind, with and without an id, with a control's id and
\* with a decorative id, at either end of the grid
PlainElements ==
    {Element(t, i, x, 0, 0) :
        t \in {"circle", "rect"}, i \in {"", "knob_size", "kbd_key_1"}, x \in {0, MaxCoord}}

\* Two controls: coinciding or further apart than the threshold; in a control
\* section, in a non-control section, in none
PlacedElements ==
    {Element("circle", "knob_size", 0, 0, 2), Element("rect", "play_btn", 0, 0, 0),
     Element("rect", "play_btn", MaxCoord, 1, 1)}

\* Mapping entries as found in a hand-edited mapping file: for the knob, of
\* an emitted type, of type Unknown, without a type, and empty
KnobEntry ==
    [type |-> "OccultKnob", member |-> "sizeKnob", label |-> "SIZE",
     paramId |-> "ParamIDs::grainSize", modulation |-> TRUE]

KnobEntries ==
    {KnobEntry, [type |-> "Unknown", member |-> "sizeThing", label |-> "SIZE"],
     [member |-> "sizeUntyped"], EmptyDict}

ButtonEntry == [type |-> "TextButton", member |-> "playTextButton", label |-> "PLAY"]

\* ... and for the button, of every widget type, without a type, and empty
ButtonEntries ==
    {[type |-> t, member |-> "play" \o t, label |-> "PLAY"] :
        t \in EmittedTypes \cup SkippedTypes}
    \cup {[member |-> "playUntyped"], EmptyDict}

Mappings ==
    {Merge(k, b) :
        k \in {EmptyDict} \cup {[i \in {"knob_size"} |-> e] : e \in KnobEntries},
        b \in {EmptyDict} \cup {[i \in {"play_btn"} |-> e] : e \in ButtonEntries}}

\* The mapping file of a drawing whose two controls are mapped
StandardMappingFile ==
    Save([config |-> InitConfig,
          mapping |-> [knob_size |-> KnobEntry, play_btn |-> ButtonEntry]])

\* The configuration of a mapping file edited by hand for a canvas of twice
\* the pixel size
EditedConfig ==
    [svg_width_mm |-> 225, svg_height_mm |-> 190, juce_width_px |-> 1700,
     juce_height_px |-> 1440]

\* The mapping file: missing, without a "components" member, or holding a
\* mapping (the empty one included); with the configuration init_mapping
\* writes, or an edited one
MappingFiles ==
    {<<>>, <<<<<<"config", DumpObject(InitConfig)>>>>>>}
    \cup {Save([config |-> InitConfig, mapping |-> mp]) : mp \in Mappings}
    \cup {Save([config |-> EditedConfig, mapping |-> [knob_size |-> KnobEntry]])}

NoOutputs == [name \in OutputNames |-> <<>>]

\* The three output files as an earlier generation left them
EarlierOutputs == [name \in OutputNames |-> <<<<"// from an earlier run">>>>]

Flags == [init : BOOLEAN, validate : BOOLEAN, dry_run : BOOLEAN]

\* The files before the first run: any drawing of plain elements beside the
\* standard mapping file and earlier outputs, or any drawing of placed
\* elements beside any mapping file and no outputs, or no drawing at all
Init ==
    /\ svgExists \in BOOLEAN
    /\ \/ /\ svgExists
          /\ \/ /\ svg \in DrawingsOf(PlainElements)
                /\ mappingFile = StandardMappingFile
                /\ outFiles = EarlierOutputs
             \/ /\ svg \in DrawingsOf(PlacedElements)
                /\ mappingFile \in MappingFiles
                /\ outFiles = NoOutputs
       \/ /\ ~svgExists
          /\ svg = [elems |-> <<>>, groups |-> <<>>]
          /\ mappingFile \in {<<>>, StandardMappingFile}
          /\ outFiles \in {NoOutputs, EarlierOutputs}
    /\ mode = "none"
    /\ mapper = NewMapper
    /\ components = <<>>
    /\ stdout = <<>>
    /\ exitCode = <<>>
    /\ converter = <<>>
    /\ conversion = <<>>

(***************************************************************************)
(* The operations                                                          *)
(***************************************************************************)

\* SVGToJUCEConverter.init_mapping on a fresh converter
InitMapping ==
    LET comps == Parse(svg)
        m == InitMappingMapper(NewMapper, comps)
    IN /\ components' = comps
       /\ mapper' = m
       /\ mappingFile' = Save(m)
       /\ stdout' = <<[kind |-> "parsing"], [kind |-> "found", count |-> Len(comps)],
                      [kind |-> "generated_mapping"], [kind |-> "please_review"]>>
       /\ UNCHANGED outFiles

\* The mapping check, were it made on the configuration
NoConfig(m) == DOMAIN m.config = {}

\* `not self.mapper.mapping`: nothing was loaded
NoMapping(m) == DOMAIN m.mapping = {}

\* A validate that saves the mapping it has loaded
ValidateAndSave ==
    LET m == Load(NewMapper, mappingFile) IN
    /\ mapper' = m
    /\ mappingFile' = Save(m)
    /\ IF NoMapping(m)
       THEN /\ stdout' = <<[kind |-> "error_no_mapping"]>>
            /\ components' = <<>>
       ELSE /\ components' = Parse(svg)
            /\ stdout' = ValidateReport(m, components')
    /\ UNCHANGED outFiles

\* SVGToJUCEConverter.validate on a fresh converter
Validate ==
    LET m == Load(NewMapper, mappingFile) IN
    /\ mapper' = m
    /\ IF NoMapping(m)
       THEN /\ stdout' = <<[kind |-> "error_no_mapping"]>>
            /\ components' = <<>>
       ELSE /\ components' = Parse(svg)
            /\ stdout' = ValidateReport(m, components')
    /\ UNCHANGED <<mappingFile, outFiles>>

\* SVGToJUCEConverter.generate_code on a fresh converter
GenerateCode(dry_run) ==
    LET m == Load(NewMapper, mappingFile) IN
    /\ mapper' = m
    /\ IF NoMapping(m)
       THEN /\ stdout' = <<[kind |-> "error_no_mapping"]>>
            /\ components' = <<>>
            /\ UNCHANGED outFiles
       ELSE LET snippets == Snippets(m, converter'[1], components')
                head == <<[kind |-> "parsing"],
                          [kind |-> "found", count |-> Len(components')],
                          [kind |-> "generating"]>>
            IN /\ components' = Parse(svg)
               /\ IF dry_run
                  THEN /\ stdout' = head \o DryRunReport(snippets)
                       /\ UNCHANGED outFiles
                  ELSE /\ outFiles' = WriteOutputs(snippets)
                       /\ stdout' = head \o WriteReport
    /\ UNCHANGED mappingFile

\* main: which mode the flags select
ModeOf(a) ==
    IF a.init THEN "init"
    ELSE IF a.validate THEN "validate"
    ELSE IF a.dry_run THEN "dry_run"
    ELSE "generate"

\* The modes the command line can select
Modes == {ModeOf(a) : a \in Flags}

\* A main that looks for SR.svg only after the --init mode has run
MainSvgMissingAfterInit ==
    /\ ~svgExists
    /\ mode' = "init"
    /\ InitMapping
    /\ exitCode' = <<1>>
    /\ converter' = <<DefaultConverter>>
    /\ UNCHANGED <<svgExists, svg, conversion>>

\* main: SR.svg does not exist; exit status 1 before a converter is built,
\* whatever the flags
MainSvgMissing ==
    /\ ~svgExists
    /\ Flags # {}
    /\ mode' = "none"
    /\ stdout' = <<[kind |-> "error_svg_not_found"]>>
    /\ exitCode' = <<1>>
    /\ mapper' = NewMapper
    /\ components' = <<>>
    /\ converter' = <<>>
    /\ UNCHANGED <<svgExists, svg, mappingFile, outFiles, conversion>>

\* main --init
MainInit ==
    /\ svgExists
    /\ "init" \in Modes
    /\ mode' = "init"
    /\ converter' = <<DefaultConverter>>
    /\ InitMapping
    /\ exitCode' = <<0>>
    /\ UNCHANGED <<svgExists, svg, conversion>>

\* main --validate
MainValidate ==
    /\ svgExists
    /\ "validate" \in Modes
    /\ mode' = "validate"
    /\ converter' = <<DefaultConverter>>
    /\ Validate
    /\ exitCode' = <<0>>
    /\ UNCHANGED <<svgExists, svg, conversion>>

\* main --dry-run
MainDryRun ==
    /\ svgExists
    /\ "dry_run" \in Modes
    /\ mode' = "dry_run"
    /\ converter' = <<DefaultConverter>>
    /\ GenerateCode(TRUE)
    /\ exitCode' = <<0>>
    /\ UNCHANGED <<svgExists, svg, conversion>>

\* main without a mode flag
MainGenerate ==
    /\ svgExists
    /\ "generate" \in Modes
    /\ mode' = "generate"
    /\ converter' = <<DefaultConverter>>
    /\ GenerateCode(FALSE)
    /\ exitCode' = <<0>>
    /\ UNCHANGED <<svgExists, svg, conversion>>

Next ==
    \/ MainSvgMissing
    \/ MainInit
    \/ MainValidate
    \/ MainDryRun
    \/ MainGenerate

Spec == Init /\ [][Next]_vars

(***************************************************************************)
(* The converter by itself: any converter, called with any lengths         *)
(***************************************************************************)

\* The largest length given to the converter, in quarters of a millimetre
MaxQuarters == 6

\* The largest side of a canvas whose pixel size equals its physical size
MaxSide == 3

\* Lengths of either sign, whole and fractional, halves included
Lengths == {Length(k, 4) : k \in -MaxQuarters .. MaxQuarters}

\* CoordinateConverter(w, h, w, h): the identity scale configurations, and
\* CoordinateConverter(): the default one
Converters ==
    {CoordinateConverter(w, h, w, h) : w, h \in {1, MaxSide}} \cup {DefaultConverter}

\* A converter has been built; nothing else exists
ConvInit ==
    /\ converter \in {<<c>> : c \in Converters}
    /\ conversion = <<>>
    /\ svgExists = FALSE
    /\ svg = [elems |-> <<>>, groups |-> <<>>]
    /\ mappingFile = <<>>
    /\ outFiles = NoOutputs
    /\ mode = "none"
    /\ mapper = NewMapper
    /\ components = <<>>
    /\ stdout = <<>>
    /\ exitCode = <<>>

\* converter.to_juce(x_mm, y_mm)
CallToJuce ==
    /\ \E x_mm, y_mm \in Lengths :
          conversion' = <<[op |-> "to_juce", x |-> x_mm, y |-> y_mm,
                           out |-> ToJuce(converter[1], x_mm, y_mm)]>>
    /\ UNCHANGED <<svgExists, svg, mappingFile, outFiles, mode, mapper, components,
                   stdout, exitCode, converter>>

\* converter.size_to_juce(width_mm, height_mm)
CallSizeToJuce ==
    /\ \E width_mm, height_mm \in Lengths :
          conversion' = <<[op |-> "size_to_juce", x |-> width_mm, y |-> height_mm,
                           out |-> SizeToJuce(converter[1], width_mm, height_mm)]>>
    /\ UNCHANGED <<svgExists, svg, mappingFile, outFiles, mode, mapper, components,
                   stdout, exitCode, converter>>

ConvNext ==
    \/ CallToJuce
    \/ CallSizeToJuce

ConvSpec == ConvInit /\ [][ConvNext]_vars

(***************************************************************************)
(* What the claims speak of                                                *)
(***************************************************************************)

\* Something of this kind was printed by the last run
Printed(kind) == \E i \in DOMAIN stdout : stdout[i].kind = kind

\* The ids listed by the warning of this kind in the last run (none when the
\* warning was not printed)
WarnedIds(kind) ==
    UNION {{stdout[i].ids[k] : k \in DOMAIN stdout[i].ids} :
              i \in {n \in DOMAIN stdout : stdout[n].kind = kind}}

\* The pairs listed by the overlap warning of the last run
WarnedPairs ==
    UNION {{stdout[i].pairs[k] : k \in DOMAIN stdout[i].pairs} :
              i \in {n \in DOMAIN stdout : stdout[n].kind = "warning_overlaps"}}

\* The ids that a warning of the last run names
IdsInWarnings ==
    WarnedIds("warning_unmapped") \cup WarnedIds("warning_unknown_type")
    \cup WarnedIds("warning_out_of_bounds")
    \cup {pr[1] : pr \in WarnedPairs} \cup {pr[2] : pr \in WarnedPairs}

\* The last run was a validate that got as far as parsing the drawing
Validated == mode = "validate" /\ Printed("parsing")

\* The last run was a generate_code that wrote the three files
Generated == mode = "generate" /\ Printed("generation_complete")

ComponentIds == {components[i].id : i \in DOMAIN components}

MappingIds == DOMAIN mapper.mapping

\* The id begins with one of the decorative prefixes
Decorative(id) ==
    \/ StartsWith(id, "grain_particle")
    \/ StartsWith(id, "midi_dot")
    \/ StartsWith(id, "kbd_key")

(***************************************************************************)
(* C1.  No element whose id starts with a decorative prefix                *)
(* (grain_particle, midi_dot, kbd_key) is in the list parse returns,       *)
(* whether it is a circle or a rectangle and wherever it is.               *)
(* The rectangle parser does not test the prefixes: the statement fails.   *)
(***************************************************************************)
C1_NoDecorativeShape == \A i \in DOMAIN components : ~Decorative(components[i].id)

(***************************************************************************)
(* C2.  As claimed: validate flags as unmapped exactly the ids of parsed   *)
(* shapes that the mapping lacks, and an id of the mapping that no parsed  *)
(* shape carries causes no warning at all.                                 *)
(***************************************************************************)
C2_Original ==
    Validated =>
        /\ WarnedIds("warning_unmapped") = ComponentIds \ MappingIds
        /\ \A id \in MappingIds \ ComponentIds : id \notin IdsInWarnings

(***************************************************************************)
(* C2, amended.  When validate gets past the mapping check (the loaded     *)
(* mapping is not empty), it flags as unmapped exactly the ids of parsed   *)
(* shapes that the mapping lacks; an id of the mapping that no parsed      *)
(* shape carries is never flagged as unmapped, and is named by a warning   *)
(* exactly when its entry has type Unknown, by the unknown-type warning.   *)
(***************************************************************************)
C2_UnmappedExactly ==
    Validated =>
        /\ MappingIds # {}
        /\ WarnedIds("warning_unmapped") = ComponentIds \ MappingIds
        /\ \A id \in MappingIds \ ComponentIds :
              /\ id \notin WarnedIds("warning_unmapped")
              /\ id \notin WarnedIds("warning_out_of_bounds")
              /\ \A pr \in WarnedPairs : pr[1] # id /\ pr[2] # id
              /\ id \in WarnedIds("warning_unknown_type")
                    <=> /\ "type" \in DOMAIN mapper.mapping[id]
                        /\ mapper.mapping[id].type = "Unknown"

\* A validate run on a drawing with an unmapped shape and a mapping with an
\* entry, not of type Unknown, that no shape carries
C2_Witness ==
    /\ Validated
    /\ ComponentIds \ MappingIds # {}
    /\ \E id \in MappingIds \ ComponentIds : id \notin IdsInWarnings

(***************************************************************************)
(* C3.  As claimed: in validate, two distinct parsed shapes at the same    *)
(* position are reported as overlapping, and two more than 2 mm apart are  *)
(* not.  (Stated of the pairs that C1, C5 and C7 do not touch: shapes      *)
(* with different ids, none decorative, none with a malformed entry.)      *)
(***************************************************************************)
\* The shape's id is not decorative and its entry, if any, has a type
WellFormed(i) ==
    /\ ~Decorative(components[i].id)
    /\ components[i].id \in MappingIds => "type" \in DOMAIN mapper.mapping[components[i].id]

SamePosition(c1, c2) == c1.x = c2.x /\ c1.y = c2.y

\* The distance of the two shapes exceeds 2 mm
FurtherThan2mm(c1, c2) ==
    (c1.x - c2.x) * (c1.x - c2.x) + (c1.y - c2.y) * (c1.y - c2.y) > 4

\* The pair of the shapes i < j of the list is in the overlap warning
ReportedPair(i, j) ==
    \E pr \in WarnedPairs :
        /\ pr[1] = components[i].id
        /\ pr[2] = components[j].id
        /\ pr[3] = (components[i].x - components[j].x) * (components[i].x - components[j].x)
                   + (components[i].y - components[j].y) * (components[i].y - components[j].y)

Checkable(id) ==
    /\ id \in MappingIds
    /\ DOMAIN mapper.mapping[id] # {}
    /\ "type" \in DOMAIN mapper.mapping[id]
          => mapper.mapping[id].type \notin {"ModButton", "Indicator", "Unknown"}

HoldsNoEntries(file) ==
    \/ file = <<>>
    \/ \A i \in DOMAIN file[1] : file[1][i][1] = "components" => file[1][i][2] = <<>>

C4_AbortsWithoutMapping ==
    [][(mode' \in {"validate", "dry_run", "generate"} /\ HoldsNoEntries(mappingFile)) =>
          /\ stdout' = <<[kind |-> "error_no_mapping"]>>
          /\ outFiles' = outFiles
          /\ mappingFile' = mappingFile
          /\ components' = <<>>]_vars

\* A generation run that found a mapping file without entries and stopped
C4_Witness ==
    /\ mode = "generate"
    /\ mappingFile # <<>> /\ HoldsNoEntries(mappingFile)
    /\ stdout = <<[kind |-> "error_no_mapping"]>>
    /\ outFiles = NoOutputs
    /\ components = <<>>

(***************************************************************************)
(* C5.  A malformed mapping entry (an empty one, or one without a widget   *)
(* type) is treated as no entry: validate names its id in a warning, and   *)
(* generate_code emits no code for it in any of the three snippets.        *)
(* Neither holds: validate passes such an entry over, and the layout       *)
(* snippet positions the member of an entry without a type.                *)
(***************************************************************************)
Malformed(id) == id \in MappingIds /\ "type" \notin DOMAIN mapper.mapping[id]

\* A line of code (not a comment) of an output file names the id or the
\* entry's member
EmitsCodeFor(id) ==
    \E name \in OutputNames : \E k \in DOMAIN outFiles[name][1] :
        LET line == outFiles[name][1][k] IN
        /\ ~StartsWith(line, "//")
        /\ \/ Contains(line, id)
           \/ /\ "member" \in DOMAIN mapper.mapping[id]
              /\ Contains(line, mapper.mapping[id].member)

C5_MalformedAsAbsent ==
    /\ Validated =>
          \A i \in DOMAIN components :
              Malformed(components[i].id) => components[i].id \in IdsInWarnings
    /\ Generated =>
          \A i \in DOMAIN components :
              Malformed(components[i].id) => ~EmitsCodeFor(components[i].id)

(***************************************************************************)
(* C6.  As claimed: a mapped shape of type ModButton, Indicator or Unknown *)
(* is emitted in none of the three snippets, and one of the six emitting   *)
(* types in all three: a declaration in the header snippet, an             *)
(* addAndMakeVisible line in the constructor snippet, a setBounds call in  *)
(* the layout snippet.                                                     *)
(***************************************************************************)
FileHasLine(name, P(_)) == \E k \in DOMAIN outFiles[name][1] : P(outFiles[name][1][k])

Declared(member) ==
    LET IsDeclaration(line) ==
            /\ ~StartsWith(line, "//")
            /\ EndsWith(line, " " \o member \o ";")
               \/ Contains(line, " " \o member \o "{\"")
    IN FileHasLine("header_snippet.hpp", IsDeclaration)

MadeVisible(member) ==
    LET IsVisible(line) == line = "addAndMakeVisible(" \o member \o ");"
    IN FileHasLine("constructor_snippet.cpp", IsVisible)

Positioned(member) ==
    LET IsSetBounds(line) == line = member \o ".setBounds("
    IN FileHasLine("resized_snippet.cpp", IsSetBounds)

\* The components whose id has a mapping entry with a type and a member
Typed == {i \in DOMAIN components :
             /\ components[i].id \in MappingIds
             /\ {"type", "member"} \subseteq DOMAIN mapper.mapping[components[i].id]}

TypeOf(i) == mapper.mapping[components[i].id].type

MemberOf(i) == mapper.mapping[components[i].id].member

C6_Original ==
    Generated =>
        \A i \in Typed :
            /\ TypeOf(i) \in {"ModButton", "Indicator", "Unknown"} =>
                  ~Declared(MemberOf(i)) /\ ~MadeVisible(MemberOf(i)) /\ ~Positioned(MemberOf(i))
            /\ TypeOf(i) \in {"OccultKnob", "TextButton", "ComboBox", "WaveformDisplay",
                              "GrainVisualizer", "LFOVisualizer"} =>
                  Declared(MemberOf(i)) /\ MadeVisible(MemberOf(i)) /\ Positioned(MemberOf(i))

\* The shape lies in one of the sections the header and layout snippets skip
InNonControlSection(i) == components[i].section \in {"Panel", "Decorations", "Header"}

(***************************************************************************)
(* C6, amended.  A mapped shape of type ModButton, Indicator or Unknown is *)
(* emitted in none of the three snippets.  A mapped shape of one of the    *)
(* six emitting types always has its addAndMakeVisible line in the         *)
(* constructor snippet, and has its declaration in the header snippet and  *)
(* its setBounds call in the layout snippet exactly when its section is    *)
(* not one of Panel, Decorations, Header.                                  *)
(***************************************************************************)
C6_EmittedByTypeAndSection ==
    Generated =>
        \A i \in Typed :
            /\ TypeOf(i) \in {"ModButton", "Indicator", "Unknown"} =>
                  ~Declared(MemberOf(i)) /\ ~MadeVisible(MemberOf(i)) /\ ~Positioned(MemberOf(i))
            /\ TypeOf(i) \in {"OccultKnob", "TextButton", "ComboBox", "WaveformDisplay",
                              "GrainVisualizer", "LFOVisualizer"} =>
                  /\ MadeVisible(MemberOf(i))
                  /\ Declared(MemberOf(i)) <=> ~InNonControlSection(i)
                  /\ Positioned(MemberOf(i)) <=> ~InNonControlSection(i)

\* A generation with an emitting shape in a control section, an emitting
\* shape in the Panel section, and a shape of a skipped type
C6_Witness ==
    /\ Generated
    /\ \E i \in Typed : TypeOf(i) = "OccultKnob" /\ Declared(MemberOf(i))
                        /\ MadeVisible(MemberOf(i)) /\ Positioned(MemberOf(i))
    /\ \E i \in Typed : TypeOf(i) \in {"ModButton", "Indicator", "Unknown"}
                        /\ InNonControlSection(i)

(***************************************************************************)
(* C7.  The list parse returns never holds two records with the same id,   *)
(* also for a drawing in which two elements carry the same id.             *)
(* parse appends every element that passes the filters: the statement      *)
(* fails.                                                                  *)
(***************************************************************************)
C7_UniqueIds ==
    \A i, j \in DOMAIN components : i # j => components[i].id # components[j].id

(***************************************************************************)
(* C8.  Saving a mapping store and loading it from the same file gives     *)
(* back the mapping entries and the configuration that were saved, for     *)
(* every mapping the program holds, the empty one included; in particular  *)
(* the file init_mapping has just saved loads back to what it held.        *)
(***************************************************************************)
C8_SaveLoadRoundTrip ==
    /\ Load(NewMapper, Save(mapper)) = mapper
    /\ mode = "init" => Load(NewMapper, mappingFile) = mapper

\* init_mapping has saved a mapping with entries
C8_Witness ==
    /\ mode = "init"
    /\ MappingIds # {}
    /\ mappingFile # <<>>
    /\ Load(NewMapper, mappingFile) = mapper

(***************************************************************************)
(* C9.  As claimed: with the preview-only modifier generate_code prints    *)
(* the generated text and creates or modifies none of the three output     *)
(* files; without it, and with a non-empty mapping, all three output files *)
(* are written with the full text of their snippets.                       *)
(***************************************************************************)
\* '\n'.join(lines)
RECURSIVE JoinLines(_)
JoinLines(lines) ==
    IF Len(lines) = 0 THEN ""
    ELSE IF Len(lines) = 1 THEN Head(lines)
    ELSE Head(lines) \o "\n" \o JoinLines(Tail(lines))

\* The text shown for the file in the previews of what was printed
PreviewText(out, name) ==
    LET i == CHOOSE i \in DOMAIN out : out[i].kind = "preview" /\ out[i].name = name
    IN JoinLines(out[i].text)

HasPreview(out, name) ==
    \E i \in DOMAIN out : out[i].kind = "preview" /\ out[i].name = name

\* The text of the snippet of the file, for a mapper and a list of shapes
SnippetText(m, comps, name) == JoinLines(Snippets(m, DefaultConverter, comps)[name])

\* s[:n]
Prefix(s, n) == IF Len(s) <= n THEN s ELSE SubSeq(s, 1, n)

C9_Original ==
    [][/\ mode' = "dry_run" =>
             /\ outFiles' = outFiles
             /\ ~HoldsNoEntries(mappingFile) =>
                   \A name \in OutputNames :
                       /\ HasPreview(stdout', name)
                       /\ PreviewText(stdout', name) = SnippetText(mapper', components', name)
       /\ (mode' = "generate" /\ ~HoldsNoEntries(mappingFile)) =>
             \A name \in OutputNames :
                 /\ outFiles'[name] # <<>>
                 /\ JoinLines(outFiles'[name][1]) = SnippetText(mapper', components', name)]_vars

(***************************************************************************)
(* C9, amended.  With the preview-only modifier generate_code prints the   *)
(* first 500 characters of each of the three snippets and creates or       *)
(* modifies none of the three output files; without it, and with a         *)
(* non-empty mapping, all three output files are written with the full     *)
(* text of their snippets.                                                 *)
(***************************************************************************)
C9_PreviewOrWrite ==
    [][/\ mode' = "dry_run" =>
             /\ outFiles' = outFiles
             /\ ~HoldsNoEntries(mappingFile) =>
                   \A name \in OutputNames :
                       /\ HasPreview(stdout', name)
                       /\ PreviewText(stdout', name)
                              = Prefix(SnippetText(mapper', components', name), 500)
       /\ (mode' = "generate" /\ ~HoldsNoEntries(mappingFile)) =>
             \A name \in OutputNames :
                 /\ outFiles'[name] # <<>>
                 /\ JoinLines(outFiles'[name][1]) = SnippetText(mapper', components', name)]_vars

\* A preview run after a generation with the same mapping: the files hold
\* the full snippets, and the preview of one of them is cut short
C9_Witness ==
    /\ mode = "dry_run"
    /\ \A name \in OutputNames :
          /\ outFiles[name] # <<>>
          /\ JoinLines(outFiles[name][1]) = SnippetText(mapper, components, name)
          /\ HasPreview(stdout, name)
    /\ \E name \in OutputNames :
          Len(PreviewText(stdout, name)) < Len(SnippetText(mapper, components, name))

(***************************************************************************)
(* C10.  validate writes no file; generate_code, previewing or writing,    *)
(* never modifies the mapping file; init_mapping writes the mapping file   *)
(* and none of the three output files.                                     *)
(***************************************************************************)
C10_FileFrames ==
    [][/\ mode' = "validate" => mappingFile' = mappingFile /\ outFiles' = outFiles
       /\ mode' \in {"dry_run", "generate"} => mappingFile' = mappingFile
       /\ mode' = "init" => outFiles' = outFiles /\ mappingFile' # <<>>]_vars

\* init_mapping has replaced the mapping file and left earlier outputs alone
C10_Witness ==
    /\ mode = "init"
    /\ mappingFile # <<>> /\ mappingFile # StandardMappingFile
    /\ outFiles = EarlierOutputs

(***************************************************************************)
(* C11.  When the drawing file is missing, the run exits with a non-zero   *)
(* status before any mode is executed, whichever flags were given: it      *)
(* prints the error only, builds no converter (nothing is loaded, nothing  *)
(* is parsed), and the mapping file and the three output files stay as     *)
(* they were.                                                              *)
(***************************************************************************)
C11_AbortsWithoutDrawing ==
    [][~svgExists =>
          /\ exitCode' # <<>> /\ exitCode'[1] # 0
          /\ mode' = "none"
          /\ stdout' = <<[kind |-> "error_svg_not_found"]>>
          /\ mapper' = NewMapper
          /\ components' = <<>>
          /\ mappingFile' = mappingFile
          /\ outFiles' = outFiles]_vars

\* A run without a drawing has exited with status 1 beside a mapping file
\* and earlier output files, all left as they were
C11_Witness ==
    /\ ~svgExists
    /\ exitCode = <<1>>
    /\ stdout = <<[kind |-> "error_svg_not_found"]>>
    /\ mappingFile = StandardMappingFile
    /\ outFiles = EarlierOutputs

(***************************************************************************)
(* C12.  With the identity scale configuration (pixel width equal to       *)
(* physical width, pixel height equal to physical height), to_juce and     *)
(* size_to_juce return on each axis an integer nearest to the length they  *)
(* were given (at most half a unit away), and the length itself when it    *)
(* is a whole number.                                                      *)
(***************************************************************************)
Identity(conv) ==
    /\ conv.juce_width_px = conv.svg_width_mm
    /\ conv.juce_height_px = conv.svg_height_mm

\* |n - v| <= 1/2
NearestTo(n, v) == 2 * Abs(n * v.den - v.num) <= v.den

Whole(v) == v.num % v.den = 0

UnchangedByRounding(n, v) == NearestTo(n, v) /\ (Whole(v) => n * v.den = v.num)

C12_IdentityScale ==
    (conversion # <<>> /\ Identity(converter[1])) =>
        /\ UnchangedByRounding(conversion[1].out[1], conversion[1].x)
        /\ UnchangedByRounding(conversion[1].out[2], conversion[1].y)

\* The identity converter was given 1.5 and 0.75: it returned 2 and 1
C12_Witness ==
    /\ conversion # <<>>
    /\ Identity(converter[1])
    /\ conversion[1].op = "to_juce"
    /\ conversion[1].x = Length(6, 4) /\ conversion[1].out[1] = 2
    /\ conversion[1].y = Length(3, 4) /\ conversion[1].out[2] = 1

(***************************************************************************)
(* C13.  The scale factors used in a run are strictly positive and, on     *)
(* each axis, equal the ratio of the pixel dimension to the physical       *)
(* dimension that the configuration loaded from the mapping file declares. *)
(* The converter is built from its default arguments and the loaded        *)
(* configuration is never read: the statement fails for a mapping file     *)
(* whose configuration differs from the defaults.                          *)
(***************************************************************************)
\* The last run built a converter and loaded a full configuration
LoadedConfig ==
    /\ converter # <<>>
    /\ mode \in {"validate", "dry_run", "generate"}
    /\ {"svg_width_mm", "svg_height_mm", "juce_width_px", "juce_height_px"}
          \subseteq DOMAIN mapper.config

\* scale = px / mm, for scale = <<numerator, denominator>>
IsRatio(scale, px, mm) == scale[1] * mm = scale[2] * px

C13_ScaleFromConfig ==
    LoadedConfig =>
        /\ converter[1].scale_x[1] > 0 /\ converter[1].scale_x[2] > 0
        /\ converter[1].scale_y[1] > 0 /\ converter[1].scale_y[2] > 0
        /\ IsRatio(converter[1].scale_x, mapper.config.juce_width_px,
                   mapper.config.svg_width_mm)
        /\ IsRatio(converter[1].scale_y, mapper.config.juce_height_px,
                   mapper.config.svg_height_mm)

(***************************************************************************)
(* C14.  After init_mapping the mapping file holds one entry for each id   *)
(* of the parsed shapes and no other, each the suggested skeleton entry,   *)
(* whatever the mapping file held before (earlier entries are neither      *)
(* kept nor merged); and a validate run directly after init_mapping, on    *)
(* a drawing with at least one shape, gets past the mapping check and      *)
(* reports no unmapped id.                                                 *)
(***************************************************************************)
\* The entries a load of the mapping file gives
SavedMapping(file) == Load(NewMapper, file).mapping

====
